---- MODULE Spec2Model ----
(***************************************************************************)
(* A model of the WDMMG API client (src/src/wdmmg/client.py): date         *)
(* normalization, the request mediator (_request) on top of the retrying   *)
(* transport session, the transaction generator (iter_transactions), its   *)
(* materialized form (get_transactions) and the session's lifecycle        *)
(* (close, __enter__, __exit__).                                           *)
(*                                                                         *)
(* Python values are tagged records ([t |-> "str", s |-> ...]); a Python   *)
(* string is a tuple of one-character strings; an optional value is the    *)
(* record [t |-> "NoneType"]; a dict is a function whose DOMAIN is its set *)
(* of keys.                                                                *)
(***************************************************************************)
EXTENDS Integers, Sequences, FiniteSets, TLC

VARIABLES
    max_retries,  \* __init__'s max_retries, the Retry strategy's total
    session,      \* the requests.Session: connections held open, close() calls
    backend,      \* the server: the exchange it holds for the k-th page request
    args,         \* the date bounds the caller passes: [start_date, end_date]
    gens,         \* the generators iter_transactions has created, by id
    ret,          \* the outcome of the last completed public call
    scope         \* the with-block: where it is and the error leaving it

vars == <<max_retries, session, backend, args, gens, ret, scope>>

(***************************************************************************)
(* Bounds of the model.                                                    *)
(***************************************************************************)
MaxRetries == 3      \* max_retries is drawn from 0..MaxRetries
MaxHeaderLen == 2    \* characters of a Retry-After header
MaxPages == 3        \* pages of a mocked paginated backend
MaxPageLen == 2      \* transactions of one page
MaxCloses == 3       \* calls of close() on one client

(***************************************************************************)
(* Program constants.                                                      *)
(***************************************************************************)
DEFAULT_PAGE_SIZE == 100

None == [t |-> "NoneType"]
PyStr(s) == [t |-> "str", s |-> s]
PyInt(v) == [t |-> "int", v |-> v]
PyDate(y, m, d) == [t |-> "date", y |-> y, m |-> m, d |-> d]
\* datetime.datetime is a subclass of datetime.date
PyDatetime(y, m, d, hh, mi, ss) ==
    [t |-> "datetime", y |-> y, m |-> m, d |-> d, hh |-> hh, mi |-> mi, ss |-> ss]

Min(a, b) == IF a <= b THEN a ELSE b

\* dict.get(key, default)
Get(d, key, default) == IF key \in DOMAIN d THEN d[key] ELSE default

(***************************************************************************)
(* Characters and decimal numerals.                                        *)
(***************************************************************************)
Digits == <<"0", "1", "2", "3", "4", "5", "6", "7", "8", "9">>

IsDigit(c) == \E i \in 1..10 : Digits[i] = c

DigitVal(c) == (CHOOSE i \in 1..10 : Digits[i] = c) - 1

AllDigits(s) == \A i \in 1..Len(s) : IsDigit(s[i])

RECURSIVE DecimalValue(_)
DecimalValue(s) ==
    IF s = <<>> THEN 0
    ELSE 10 * DecimalValue(SubSeq(s, 1, Len(s) - 1)) + DigitVal(s[Len(s)])

\* n written with exactly w digits, zero padded (format spec %0wd)
RECURSIVE ZeroPad(_, _)
ZeroPad(n, w) ==
    IF w = 0 THEN <<>>
    ELSE Append(ZeroPad(n \div 10, w - 1), Digits[(n % 10) + 1])

(***************************************************************************)
(* int(text): an optional sign followed by one or more decimal digits.     *)
(* The result is [ok |-> TRUE, v |-> n] or [ok |-> FALSE] (ValueError).    *)
(***************************************************************************)
ParseInt(s) ==
    LET signed == s # <<>> /\ s[1] \in {"+", "-"}
        body == IF signed THEN Tail(s) ELSE s
    IN  IF body # <<>> /\ AllDigits(body)
        THEN [ok |-> TRUE,
              v |-> IF signed /\ s[1] = "-" THEN 0 - DecimalValue(body)
                    ELSE DecimalValue(body)]
        ELSE [ok |-> FALSE]

(***************************************************************************)
(* datetime.date: isoformat() and fromisoformat().                         *)
(***************************************************************************)
IsLeap(y) == (y % 4 = 0 /\ y % 100 # 0) \/ y % 400 = 0

DaysInMonth(y, m) ==
    IF m = 2 THEN (IF IsLeap(y) THEN 29 ELSE 28)
    ELSE IF m \in {4, 6, 9, 11} THEN 30 ELSE 31

ValidDate(y, m, d) ==
    /\ y \in 1..9999
    /\ m \in 1..12
    /\ d \in 1..DaysInMonth(y, m)

\* date.isoformat(): YYYY-MM-DD; datetime.isoformat(): YYYY-MM-DDTHH:MM:SS
isoformat(v) ==
    LET day == ZeroPad(v.y, 4) \o <<"-">> \o ZeroPad(v.m, 2) \o <<"-">> \o ZeroPad(v.d, 2)
    IN  IF v.t = "datetime"
        THEN day \o <<"T">> \o ZeroPad(v.hh, 2) \o <<":">> \o ZeroPad(v.mi, 2)
                 \o <<":">> \o ZeroPad(v.ss, 2)
        ELSE day

\* date.fromisoformat(s) succeeds (raises no ValueError) on YYYY-MM-DD of a
\* calendar date.  (From Python 3.11 on it also takes the basic form YYYYMMDD
\* and week dates; no string of those forms is among the bounds passed here.)
fromisoformat_ok(s) ==
    /\ Len(s) = 10
    /\ s[5] = "-" /\ s[8] = "-"
    /\ AllDigits(SubSeq(s, 1, 4)) /\ AllDigits(SubSeq(s, 6, 7)) /\ AllDigits(SubSeq(s, 9, 10))
    /\ ValidDate(DecimalValue(SubSeq(s, 1, 4)), DecimalValue(SubSeq(s, 6, 7)),
                 DecimalValue(SubSeq(s, 9, 10)))

(***************************************************************************)
(* Outcomes of a call: a returned value or a raised exception.             *)
(***************************************************************************)
Return(v) == [kind |-> "return", value |-> v]
Raise(e) == [kind |-> "raise", exc |-> e]

Returned(o) == o.kind = "return"
Raised(o) == o.kind = "raise"
RaisedType(o, ty) == o.kind = "raise" /\ o.exc.type = ty

\* _normalize_date(value)
_normalize_date(value) ==
    IF value = None THEN Return(None)
    ELSE IF value.t \in {"date", "datetime"} THEN Return(PyStr(isoformat(value)))
    ELSE IF value.t = "str" THEN
        IF fromisoformat_ok(value.s) THEN Return(value)
        ELSE Raise([type |-> "ValueError", value |-> value])
    ELSE Raise([type |-> "TypeError", got |-> value.t])

(***************************************************************************)
(* The transport: a requests.Session whose adapter carries                 *)
(* Retry(total=max_retries, status_forcelist=[429, 500, 502, 503, 504],    *)
(* raise_on_status=False).  An exchange is what the server holds ready for *)
(* one request: its answer to the first attempt, to the second, and so on; *)
(* it repeats its last answer when asked again.  An answer is a response   *)
(* or a transport failure (a requests exception).                          *)
(***************************************************************************)
Response(status, headers, body) ==
    [kind |-> "response", status_code |-> status, headers |-> headers, body |-> body]

TransportFailure(e) == [kind |-> "exception", exc |-> e]

status_forcelist == {429, 500, 502, 503, 504}

AnswerAt(exchange, i) == exchange[Min(i, Len(exchange))]

\* The Retry strategy re-issues an attempt that ended in a listed status or in
\* a connection or read failure, while retries are left.
Retryable(answer) ==
    \/ answer.kind = "response" /\ answer.status_code \in status_forcelist
    \/ answer.kind = "exception" /\ answer.exc \in {"Timeout", "ConnectionError"}

\* session.request(...): the attempt that ends the call and its number
RECURSIVE SessionAttempts(_, _, _)
SessionAttempts(exchange, i, retries_left) ==
    LET answer == AnswerAt(exchange, i)
    IN  IF Retryable(answer) /\ retries_left > 0
        THEN SessionAttempts(exchange, i + 1, retries_left - 1)
        ELSE [final |-> answer, attempts |-> i]

SessionRequest(exchange, total) == SessionAttempts(exchange, 1, total)

\* response.text and response.json()
ResponseText(r) == r.body

ResponseJson(r) ==
    IF "json" \in DOMAIN r.body THEN Return(r.body.json)
    ELSE Raise([type |-> "JSONDecodeError"])

\* WdmmgRateLimitError(retry_after)
WdmmgRateLimitError(retry_after) ==
    [type |-> "WdmmgRateLimitError", retry_after |-> retry_after]

\* WdmmgAPIError(status_code, response_body)
WdmmgAPIError(status_code, response_body) ==
    [type |-> "WdmmgAPIError", status_code |-> status_code, response_body |-> response_body]

\* The 429 branch with the parsed value tested for truth (`int(h) or None`)
RateLimited_ZeroIsNone(response) ==
    LET retry_after_header == Get(response.headers, "Retry-After", None)
        truthy == retry_after_header # None /\ retry_after_header.s # <<>>
        parsed == ParseInt(retry_after_header.s)
    IN  IF ~truthy THEN Raise(WdmmgRateLimitError(None))
        ELSE IF parsed.ok /\ parsed.v # 0 THEN Raise(WdmmgRateLimitError(PyInt(parsed.v)))
        ELSE IF parsed.ok THEN Raise(WdmmgRateLimitError(None))
        ELSE Raise([type |-> "ValueError", text |-> retry_after_header.s])

\* The 429 branch of _request
RateLimited(response) ==
    LET retry_after_header == Get(response.headers, "Retry-After", None)
        truthy == retry_after_header # None /\ retry_after_header.s # <<>>
        parsed == ParseInt(retry_after_header.s)
    IN  IF ~truthy THEN Raise(WdmmgRateLimitError(None))
        ELSE IF parsed.ok THEN Raise(WdmmgRateLimitError(PyInt(parsed.v)))
        ELSE Raise([type |-> "ValueError", text |-> retry_after_header.s])

\* the classification with only Timeout and ConnectionError caught: any
\* other transport exception leaves _request as it is
Classify_CatchingTwoKinds(answer) ==
    IF answer.kind = "exception"
    THEN IF answer.exc \in {"Timeout", "ConnectionError"}
         THEN Raise([type |-> "WdmmgError", cause |-> answer.exc])
         ELSE Raise([type |-> answer.exc])
    ELSE IF answer.status_code = 401
    THEN Raise([type |-> "WdmmgAuthError", message |-> "Invalid API key"])
    ELSE IF answer.status_code = 403
    THEN Raise([type |-> "WdmmgAuthError", message |-> "Access forbidden"])
    ELSE IF answer.status_code = 429 THEN RateLimited(answer)
    ELSE IF answer.status_code >= 400
    THEN Raise(WdmmgAPIError(answer.status_code, ResponseText(answer)))
    ELSE ResponseJson(answer)

\* _request, from the answer that ended session.request
Classify(answer) ==
    IF answer.kind = "exception"
    THEN Raise([type |-> "WdmmgError", cause |-> answer.exc])
    ELSE IF answer.status_code = 401
    THEN Raise([type |-> "WdmmgAuthError", message |-> "Invalid API key"])
    ELSE IF answer.status_code = 403
    THEN Raise([type |-> "WdmmgAuthError", message |-> "Access forbidden"])
    ELSE IF answer.status_code = 429 THEN RateLimited(answer)
    ELSE IF answer.status_code >= 400
    THEN Raise(WdmmgAPIError(answer.status_code, ResponseText(answer)))
    ELSE ResponseJson(answer)

\* _request issuing session.request a second time when the first call came
\* back with a server error
_request_RetryingItself(exchange, total) ==
    LET first == SessionRequest(exchange, total)
        again == SessionAttempts(exchange, first.attempts + 1, total)
        sent == IF first.final.kind = "response" /\ first.final.status_code >= 500
                THEN again ELSE first
    IN  [outcome |-> Classify(sent.final), final |-> sent.final, attempts |-> sent.attempts]

\* _request(method, endpoint, **kwargs): one session.request, then the
\* classification of what it returned or raised
_request(exchange, total) ==
    LET sent == SessionRequest(exchange, total)
    IN  [outcome |-> Classify(sent.final), final |-> sent.final, attempts |-> sent.attempts]

(***************************************************************************)
(* The session's connection pool.  A request on an empty pool opens a      *)
(* connection, which goes back to the pool when a response was read and is *)
(* dropped when the exchange failed; Session.close() empties the pool and  *)
(* leaves the session usable.                                              *)
(***************************************************************************)
NewSession == [open |-> 0, closes |-> 0]

SessionAfter(s, final) ==
    [s EXCEPT !.open = IF final.kind = "response" THEN 1 ELSE 0]

\* close(): self._session.close()
close(s) == [s EXCEPT !.open = 0, !.closes = s.closes + 1]

(***************************************************************************)
(* What a server may answer.                                               *)
(***************************************************************************)
RECURSIVE SeqsUpTo(_, _)
SeqsUpTo(S, n) ==
    IF n = 0 THEN {<<>>}
    ELSE LET shorter == SeqsUpTo(S, n - 1)
         IN  shorter \cup {Append(q, x) : q \in {r \in shorter : Len(r) = n - 1}, x \in S}

HeaderChars == {"0", "7", "W"}

\* no Retry-After header, or one of up to MaxHeaderLen characters
HeaderSets ==
    {<<>>} \cup {("Retry-After" :> PyStr(h)) : h \in SeqsUpTo(HeaderChars, MaxHeaderLen)}

Dict(d) == [t |-> "dict", d |-> d]
List(items) == [t |-> "list", items |-> items]

ErrorText == [text |-> <<"o", "o", "p", "s">>]

Bodies ==
    { ErrorText,
      [json |-> Dict([transactions |-> <<>>, has_more |-> FALSE])],
      [json |-> List(<<>>)] }

StatusCodes == {200, 399, 400, 401, 403, 404, 500, 503}

FinalAnswers ==
    {Response(st, <<>>, b) : st \in StatusCodes, b \in Bodies}
    \cup {Response(429, h, b) : h \in HeaderSets, b \in Bodies}
    \cup {TransportFailure(e) : e \in {"Timeout", "ConnectionError", "RequestException"}}

\* answers to the attempts before the last one the server holds ready
EarlierAnswers ==
    { Response(500, <<>>, ErrorText), Response(401, <<>>, ErrorText),
      TransportFailure("ConnectionError") }

Exchanges ==
    {earlier \o <<last>> : earlier \in SeqsUpTo(EarlierAnswers, MaxRetries),
                           last \in FinalAnswers}

(***************************************************************************)
(* The request mediator alone: a client, and calls of _request.            *)
(***************************************************************************)
NoCall == [op |-> "none"]

\* no with-block
NoScope == [pc |-> "none", raised |-> None, exc |-> None]

NoGen == [pc |-> "none"]

\* the generators followed on one client
GenIds == {1}

InitRequest ==
    /\ max_retries \in 0..MaxRetries
    /\ session = NewSession
    /\ backend = <<>>
    /\ args = [start_date |-> None, end_date |-> None]
    /\ gens = [id \in GenIds |-> NoGen]
    /\ ret = NoCall
    /\ scope = NoScope

\* self._request("GET", endpoint) against a server holding `exchange`; one
\* call is followed from each client
Request(exchange) ==
    LET r == _request(exchange, max_retries)
    IN  /\ ret = NoCall
        /\ ret' = [op |-> "_request", exchange |-> exchange, attempts |-> r.attempts,
                   final |-> r.final, outcome |-> r.outcome]
        /\ session' = SessionAfter(session, r.final)
        /\ UNCHANGED <<max_retries, backend, args, gens, scope>>

NextRequest == \E exchange \in Exchanges : Request(exchange)

SpecRequest == InitRequest /\ [][NextRequest]_vars

(***************************************************************************)
(* The paginated backend: for the request of the page at index k (offset   *)
(* k * limit) the server holds the exchange backend[k + 1]; past its last  *)
(* page it answers with an empty last page.                                *)
(***************************************************************************)
Page(d) == Response(200, <<>>, [json |-> Dict(d)])

EmptyLastPage == Page([transactions |-> <<>>, has_more |-> FALSE])

PageIndex(params) ==
    IF params.limit > 0 THEN params.offset \div params.limit ELSE 0

BackendAt(pages, params) ==
    IF PageIndex(params) + 1 <= Len(pages) THEN pages[PageIndex(params) + 1]
    ELSE <<EmptyLastPage>>

(***************************************************************************)
(* iter_transactions: a generator.  Calling it creates the generator and   *)
(* runs nothing; next() runs its body from where it stands to the next     *)
(* yield, to its end or to an exception.  The fields requests and yielded  *)
(* are its history: the page requests it has issued and the transactions   *)
(* it has handed to its consumer.                                          *)
(***************************************************************************)
\* iter_transactions(start_date, end_date, page_size): the generator object
iter_transactions(start_date, end_date, page_size) ==
    [pc |-> "created",
     start_date |-> start_date, end_date |-> end_date, page_size |-> page_size,
     normalized_start |-> None, normalized_end |-> None,
     offset |-> 0, has_more |-> TRUE, total_fetched |-> 0,
     data |-> <<>>, rest |-> <<>>,
     requests |-> <<>>, yielded |-> <<>>, exc |-> None, stopped |-> FALSE]

\* params with the offset advanced before the request instead of after it
PageParams_OffsetAhead(g) ==
    [offset |-> g.offset + g.page_size, limit |-> g.page_size]
    @@ (IF g.normalized_start # None THEN [start_date |-> g.normalized_start] ELSE <<>>)
    @@ (IF g.normalized_end # None THEN [end_date |-> g.normalized_end] ELSE <<>>)

\* params with the date bounds sent with the first page only
PageParams_BoundsOnFirstPage(g) ==
    [offset |-> g.offset, limit |-> g.page_size]
    @@ (IF g.normalized_start # None /\ g.offset = 0
        THEN [start_date |-> g.normalized_start] ELSE <<>>)
    @@ (IF g.normalized_end # None /\ g.offset = 0
        THEN [end_date |-> g.normalized_end] ELSE <<>>)

\* params of one page request
PageParams(g) ==
    [offset |-> g.offset, limit |-> g.page_size]
    @@ (IF g.normalized_start # None THEN [start_date |-> g.normalized_start] ELSE <<>>)
    @@ (IF g.normalized_end # None THEN [end_date |-> g.normalized_end] ELSE <<>>)

GenRaise(g, e) == [g EXCEPT !.pc = "raised", !.exc = e]

RECURSIVE WhileHasMore(_, _, _)
RECURSIVE ForTxn(_, _, _)

\* the loop with a failed page fetch taken for the end of the data
WhileHasMore_Swallowing(g, pages, total) ==
    IF ~g.has_more THEN [g EXCEPT !.pc = "returned"]
    ELSE
        LET params == PageParams(g)
            r == _request(BackendAt(pages, params), total)
            sent == [g EXCEPT !.requests =
                        Append(@, [params |-> params, attempts |-> r.attempts,
                                   final |-> r.final])]
        IN  IF Raised(r.outcome) THEN [sent EXCEPT !.pc = "returned"]
            ELSE IF r.outcome.value.t # "dict"
            THEN GenRaise(sent, [type |-> "AttributeError"])
            ELSE ForTxn([sent EXCEPT
                            !.data = r.outcome.value.d,
                            !.rest = Get(r.outcome.value.d, "transactions", <<>>)],
                        pages, total)

\* the loop taking a page without transactions for the end of the data
WhileHasMore_EndingAtEmptyPage(g, pages, total) ==
    IF ~g.has_more THEN [g EXCEPT !.pc = "returned"]
    ELSE
        LET params == PageParams(g)
            r == _request(BackendAt(pages, params), total)
            sent == [g EXCEPT !.requests =
                        Append(@, [params |-> params, attempts |-> r.attempts,
                                   final |-> r.final])]
        IN  IF Raised(r.outcome) THEN GenRaise(sent, r.outcome.exc)
            ELSE IF r.outcome.value.t # "dict"
            THEN GenRaise(sent, [type |-> "AttributeError"])
            ELSE IF Get(r.outcome.value.d, "transactions", <<>>) = <<>>
            THEN [sent EXCEPT !.pc = "returned", !.data = r.outcome.value.d]
            ELSE ForTxn([sent EXCEPT
                            !.data = r.outcome.value.d,
                            !.rest = Get(r.outcome.value.d, "transactions", <<>>)],
                        pages, total)

\* the top of `while has_more:`: leave the loop, or request a page
WhileHasMore(g, pages, total) ==
    IF ~g.has_more THEN [g EXCEPT !.pc = "returned"]
    ELSE
        LET params == PageParams(g)
            r == _request(BackendAt(pages, params), total)
            sent == [g EXCEPT !.requests =
                        Append(@, [params |-> params, attempts |-> r.attempts,
                                   final |-> r.final])]
        IN  IF Raised(r.outcome) THEN GenRaise(sent, r.outcome.exc)
            ELSE IF r.outcome.value.t # "dict"
            THEN GenRaise(sent, [type |-> "AttributeError"])
            ELSE ForTxn([sent EXCEPT
                            !.data = r.outcome.value.d,
                            !.rest = Get(r.outcome.value.d, "transactions", <<>>)],
                        pages, total)

\* the page loop asking for the next page already when it hands over the
\* last transaction of a page
ForTxn_Prefetching(g, pages, total) ==
    IF g.rest # <<>>
    THEN LET handed == [g EXCEPT !.pc = "suspended",
                                 !.yielded = Append(@, Head(g.rest)),
                                 !.rest = Tail(g.rest)]
             params == PageParams([g EXCEPT !.offset = g.offset + g.page_size])
             r == _request(BackendAt(pages, params), total)
         IN  IF Tail(g.rest) = <<>> /\ Get(g.data, "has_more", FALSE)
             THEN [handed EXCEPT !.requests =
                      Append(@, [params |-> params, attempts |-> r.attempts,
                                 final |-> r.final])]
             ELSE handed
    ELSE WhileHasMore([g EXCEPT !.has_more = Get(g.data, "has_more", FALSE),
                                !.offset = g.offset + g.page_size],
                      pages, total)

\* the page loop going on when a page does not say whether there is more
ForTxn_MoreByDefault(g, pages, total) ==
    IF g.rest # <<>>
    THEN [g EXCEPT !.pc = "suspended",
                   !.yielded = Append(@, Head(g.rest)),
                   !.rest = Tail(g.rest)]
    ELSE WhileHasMore([g EXCEPT !.has_more = Get(g.data, "has_more", TRUE),
                                !.offset = g.offset + g.page_size],
                      pages, total)

\* `for txn in transactions:`: yield the next one, or end the page
ForTxn(g, pages, total) ==
    IF g.rest # <<>>
    THEN [g EXCEPT !.pc = "suspended",
                   !.yielded = Append(@, Head(g.rest)),
                   !.rest = Tail(g.rest)]
    ELSE WhileHasMore([g EXCEPT !.has_more = Get(g.data, "has_more", FALSE),
                                !.offset = g.offset + g.page_size],
                      pages, total)

\* the body up to the loop: both bounds are normalized, start first
StartBody(g, pages, total) ==
    LET s == _normalize_date(g.start_date)
        e == _normalize_date(g.end_date)
    IN  IF Raised(s) THEN GenRaise(g, s.exc)
        ELSE IF Raised(e) THEN GenRaise(g, e.exc)
        ELSE WhileHasMore([g EXCEPT !.normalized_start = s.value,
                                    !.normalized_end = e.value,
                                    !.offset = 0, !.has_more = TRUE,
                                    !.total_fetched = 0],
                          pages, total)

\* next(generator)
Resume(g, pages, total) ==
    IF g.pc = "created" THEN StartBody(g, pages, total)
    ELSE IF g.pc = "suspended"
    THEN ForTxn([g EXCEPT !.total_fetched = @ + 1], pages, total)
    ELSE [g EXCEPT !.stopped = TRUE]

\* list(generator)
RECURSIVE Drain(_, _, _)
Drain(g, pages, total) ==
    LET r == Resume(g, pages, total)
    IN  IF r.pc = "suspended" THEN Drain(r, pages, total) ELSE r

\* get_transactions paging on its own, with a page size of its own
get_transactions_OwnPaging(start_date, end_date, pages, total) ==
    Drain(iter_transactions(start_date, end_date, 50), pages, total)

\* get_transactions(start_date, end_date): the drained generator
get_transactions(start_date, end_date, pages, total) ==
    Drain(iter_transactions(start_date, end_date, DEFAULT_PAGE_SIZE), pages, total)

\* what a call that ran the generator `g` to its end hands back
Finished(g) == g.pc \in {"returned", "raised"}

OutcomeOf(g) ==
    IF g.pc = "returned" THEN Return(List(g.yielded)) ELSE Raise(g.exc)

\* the session after the requests that took `before` to `after`
SessionAfterRun(s, before, after) ==
    IF Len(after.requests) > Len(before.requests)
    THEN SessionAfter(s, after.requests[Len(after.requests)].final)
    ELSE s

(***************************************************************************)
(* Mocked paginated backends: up to MaxPages pages, every page but the     *)
(* last one reporting has_more = true, the last one ending the iteration   *)
(* (has_more false or absent, or a failure).  The transaction at position  *)
(* j of page k is the record [page |-> k, pos |-> j].                      *)
(***************************************************************************)
Txn(k, j) == [page |-> k, pos |-> j]

Txns(k, n) == [j \in 1..n |-> Txn(k, j)]

ServerError == Response(500, <<>>, ErrorText)

ContinuingAt(k) ==
    {<<Page([transactions |-> Txns(k, n), has_more |-> TRUE])>> : n \in 0..MaxPageLen}
    \cup {<<ServerError, Page([transactions |-> Txns(k, 1), has_more |-> TRUE])>>}

TerminalAt(k) ==
    {<<Page([transactions |-> Txns(k, n), has_more |-> FALSE])>> : n \in 0..MaxPageLen}
    \cup { <<Page([transactions |-> Txns(k, 1)])>>,
           <<ServerError, Page([transactions |-> Txns(k, 1), has_more |-> FALSE])>>,
           <<ServerError>>,
           <<Response(401, <<>>, ErrorText)>>,
           <<Response(429, ("Retry-After" :> PyStr(<<"7">>)), ErrorText)>>,
           <<Response(200, <<>>, ErrorText)>>,
           <<TransportFailure("Timeout")>> }

RECURSIVE ContinuingPages(_)
ContinuingPages(n) ==
    IF n = 0 THEN {<<>>}
    ELSE {Append(p, x) : p \in ContinuingPages(n - 1), x \in ContinuingAt(n)}

Backends ==
    UNION {{Append(p, x) : p \in ContinuingPages(n - 1), x \in TerminalAt(n)} :
           n \in 1..MaxPages}

(***************************************************************************)
(* Date bounds a caller may pass.                                          *)
(***************************************************************************)
StartDates ==
    { None,
      PyDate(2024, 2, 29),
      PyStr(<<"2", "0", "2", "4", "-", "1", "3", "-", "4", "0">>),
      PyInt(20240131) }

EndDates ==
    { None,
      PyStr(<<"2", "0", "2", "4", "-", "1", "2", "-", "3", "1">>),
      PyStr(<<"2", "0", "2", "3", "-", "0", "2", "-", "2", "9">>),
      PyInt(20241231) }

PageSizes == {2, DEFAULT_PAGE_SIZE}

(***************************************************************************)
(* Pagination: one client, one backend, the caller's date bounds; the      *)
(* caller creates a generator and pulls from it, and calls                 *)
(* get_transactions.                                                       *)
(***************************************************************************)
Init ==
    /\ max_retries \in {0, MaxRetries}
    /\ session = NewSession
    /\ backend \in Backends
    /\ args \in [start_date : StartDates, end_date : EndDates]
    /\ gens = [id \in GenIds |-> NoGen]
    /\ ret = NoCall
    /\ scope = NoScope

\* g = client.iter_transactions(start_date, end_date, page_size)
IterTransactions(id, page_size) ==
    /\ gens[id] = NoGen
    /\ gens' = [gens EXCEPT ![id] =
                    iter_transactions(args.start_date, args.end_date, page_size)]
    /\ UNCHANGED <<max_retries, session, backend, args, ret, scope>>

\* next(g) with the page offset kept on the client, shared by its streams
Pull_SharedCursor(id) ==
    /\ gens[id] # NoGen
    /\ LET g == Resume(gens[id], backend, max_retries)
       IN  /\ gens' = [j \in DOMAIN gens |->
                          IF j = id THEN g
                          ELSE IF gens[j] = NoGen THEN gens[j]
                          ELSE [gens[j] EXCEPT !.offset = g.offset]]
           /\ session' = SessionAfterRun(session, gens[id], g)
    /\ UNCHANGED <<max_retries, backend, args, ret, scope>>

\* next(g)
Pull(id) ==
    /\ gens[id] # NoGen
    /\ LET g == Resume(gens[id], backend, max_retries)
       IN  /\ gens' = [gens EXCEPT ![id] = g]
           /\ session' = SessionAfterRun(session, gens[id], g)
    /\ UNCHANGED <<max_retries, backend, args, ret, scope>>

\* client.get_transactions(start_date, end_date)
GetTransactions ==
    /\ ret = NoCall
    /\ LET g == get_transactions(args.start_date, args.end_date, backend, max_retries)
       IN  /\ ret' = [op |-> "get_transactions", gen |-> g, outcome |-> OutcomeOf(g)]
           /\ session' = SessionAfterRun(session, iter_transactions(None, None, 0), g)
    /\ UNCHANGED <<max_retries, backend, args, gens, scope>>

Next ==
    \/ \E id \in GenIds, page_size \in PageSizes : IterTransactions(id, page_size)
    \/ \E id \in GenIds : Pull(id)
    \/ GetTransactions

Spec == Init /\ [][Next]_vars

(***************************************************************************)
(* get_accounts, and the client as a context manager.                      *)
(***************************************************************************)
\* get_accounts handing back the decoded body as it came
get_accounts_ReturningBody(exchange, total) ==
    LET r == _request(exchange, total)
    IN  [outcome |-> r.outcome,
         final |-> r.final, attempts |-> r.attempts,
         requests |-> <<[endpoint |-> "accounts", params |-> <<>>]>>]

\* get_accounts()
get_accounts(exchange, total) ==
    LET r == _request(exchange, total)
        data == r.outcome.value
    IN  [outcome |->
            IF Raised(r.outcome) THEN r.outcome
            ELSE IF data.t = "list" THEN Return(data)
            ELSE Return(Get(data.d, "accounts", List(<<>>))),
         final |-> r.final, attempts |-> r.attempts,
         requests |-> <<[endpoint |-> "accounts", params |-> <<>>]>>]

\* __exit__ closing the session on the normal path only
__exit___NormalPathOnly(s, exc) ==
    [session |-> IF exc = None THEN close(s) ELSE s, propagates |-> exc]

\* __exit__(exc_type, exc_val, exc_tb): closes the session and returns None,
\* so that the exception that left the block propagates
__exit__(s, exc) == [session |-> close(s), propagates |-> exc]

Accounts == List(<<[id |-> 1], [id |-> 2]>>)

AccountLists == {List(<<>>), List(<<[id |-> 1]>>), Accounts}

AccountExchanges ==
    {<<Response(200, <<>>, [json |-> L])>> : L \in AccountLists}
    \cup {<<Response(200, <<>>, [json |-> Dict([accounts |-> L])])>> : L \in AccountLists}
    \cup
    { <<Response(200, <<>>, [json |-> Dict(<<>>)])>>,
      <<ServerError, Response(200, <<>>, [json |-> Accounts])>>,
      <<Response(403, <<>>, ErrorText)>>,
      <<Response(429, <<>>, ErrorText)>>,
      <<Response(404, <<>>, ErrorText)>>,
      <<TransportFailure("ConnectionError")>> }

InitScope ==
    /\ max_retries \in {0, MaxRetries}
    /\ session = NewSession
    /\ backend \in {b \in Backends : Len(b) = 1}
    /\ args \in [start_date : StartDates, end_date : {None}]
    /\ gens = [id \in GenIds |-> NoGen]
    /\ ret = NoCall
    /\ scope = NoScope

\* a call may be made before, inside and after the with-block, not while an
\* exception is leaving it
CanCall == scope.pc \in {"none", "inside", "exited"}

\* the with-block after a call made in it: an exception starts leaving it
AfterCall(outcome) ==
    IF scope.pc = "inside" /\ Raised(outcome)
    THEN [scope EXCEPT !.pc = "unwinding", !.raised = outcome.exc]
    ELSE scope

\* with client: ...   (__enter__ returns the client)
Enter ==
    /\ scope.pc = "none"
    /\ scope' = [scope EXCEPT !.pc = "inside"]
    /\ UNCHANGED <<max_retries, session, backend, args, gens, ret>>

\* client.get_accounts()
CallGetAccounts(exchange) ==
    /\ CanCall
    /\ LET r == get_accounts(exchange, max_retries)
       IN  /\ ret' = [op |-> "get_accounts", outcome |-> r.outcome,
                      final |-> r.final, requests |-> r.requests]
           /\ session' = SessionAfter(session, r.final)
           /\ scope' = AfterCall(r.outcome)
    /\ UNCHANGED <<max_retries, backend, args, gens>>

\* client.get_transactions(start_date, end_date)
CallGetTransactions ==
    /\ CanCall
    /\ LET g == get_transactions(args.start_date, args.end_date, backend, max_retries)
       IN  /\ ret' = [op |-> "get_transactions", outcome |-> OutcomeOf(g)]
           /\ session' = SessionAfterRun(session, iter_transactions(None, None, 0), g)
           /\ scope' = AfterCall(OutcomeOf(g))
    /\ UNCHANGED <<max_retries, backend, args, gens>>

\* client.close()
CallClose ==
    /\ CanCall
    /\ session.closes < MaxCloses
    /\ session' = close(session)
    /\ ret' = [op |-> "close", outcome |-> Return(None)]
    /\ UNCHANGED <<max_retries, backend, args, gens, scope>>

\* the end of the block is reached: __exit__(None, None, None)
ExitNormally ==
    /\ scope.pc = "inside"
    /\ LET x == __exit__(session, None)
       IN  /\ session' = x.session
           /\ scope' = [scope EXCEPT !.pc = "exited", !.exc = x.propagates]
    /\ UNCHANGED <<max_retries, backend, args, gens, ret>>

\* an exception leaves the block: __exit__(type, value, traceback)
ExitRaising ==
    /\ scope.pc = "unwinding"
    /\ LET x == __exit__(session, scope.raised)
       IN  /\ session' = x.session
           /\ scope' = [scope EXCEPT !.pc = "exited", !.exc = x.propagates]
    /\ UNCHANGED <<max_retries, backend, args, gens, ret>>

NextScope ==
    \/ Enter
    \/ \E exchange \in AccountExchanges : CallGetAccounts(exchange)
    \/ CallGetTransactions
    \/ CallClose
    \/ ExitNormally
    \/ ExitRaising

SpecScope == InitScope /\ [][NextScope]_vars

(***************************************************************************)
(* Two streams of one client, pulled in any interleaving.                  *)
(***************************************************************************)
MaxPagesTwo == 2

TwoGenIds == {1, 2}

InitTwo ==
    /\ max_retries = 0
    /\ session = NewSession
    /\ backend \in {b \in Backends : Len(b) <= MaxPagesTwo}
    /\ args \in [start_date : {None, PyDate(2024, 2, 29)}, end_date : {None}]
    /\ gens = [id \in TwoGenIds |-> NoGen]
    /\ ret = NoCall
    /\ scope = NoScope

NextTwo ==
    \/ \E id \in TwoGenIds, page_size \in PageSizes : IterTransactions(id, page_size)
    \/ \E id \in TwoGenIds : Pull(id)

SpecTwo == InitTwo /\ [][NextTwo]_vars

(***************************************************************************)
(* The exception classes: each class and the class it derives from.        *)
(* ValueError, TypeError and AttributeError are Python's own; the decode   *)
(* error of response.json() derives from ValueError.                       *)
(***************************************************************************)
BaseOf ==
    [ WdmmgError |-> "Exception",
      WdmmgAuthError |-> "WdmmgError",
      WdmmgRateLimitError |-> "WdmmgError",
      WdmmgAPIError |-> "WdmmgError",
      ValueError |-> "Exception",
      TypeError |-> "Exception",
      AttributeError |-> "Exception",
      JSONDecodeError |-> "ValueError",
      Exception |-> "BaseException" ]

\* issubclass(cls, root)
RECURSIVE IsSubclass(_, _)
IsSubclass(cls, root) ==
    \/ cls = root
    \/ cls \in DOMAIN BaseOf /\ IsSubclass(BaseOf[cls], root)

\* `except WdmmgError` catches the exception
IsWdmmgError(exc) == IsSubclass(exc.type, "WdmmgError")

(***************************************************************************)
(* The checks of the caller's arguments: the API key at construction and   *)
(* a date bound.                                                           *)
(***************************************************************************)
\* a Python value tested for truth (`x or y`, `if not x`)
Truthy(v) == v # None /\ (v.t = "str" => v.s # <<>>)

\* __init__(api_key): the key from the argument or from WDMMG_API_KEY
\* (env_key is os.environ.get("WDMMG_API_KEY"))
__init__(api_key, env_key) ==
    LET key == IF Truthy(api_key) THEN api_key ELSE env_key
    IN  IF ~Truthy(key)
        THEN Raise([type |-> "ValueError", value |-> key])
        ELSE Return([api_key |-> key])

ApiKeys == {None, PyStr(<<>>), PyStr(<<"k">>)}

Years == {1, 1999, 2024, 9999}

Dates ==
    {PyDate(y, m, d) : y \in Years, m \in 1..12, d \in {1, 28, 29, 30, 31}}
    \cap {v \in [t : {"date"}, y : Years, m : 1..12, d : 1..31] : ValidDate(v.y, v.m, v.d)}

Datetimes ==
    {PyDatetime(2024, 2, 29, hh, 30, 0) : hh \in {0, 23}}

MalformedStrings ==
    { PyStr(<<>>),
      PyStr(<<"2", "0", "2", "4", "-", "1", "3", "-", "4", "0">>),
      PyStr(<<"2", "0", "2", "3", "-", "0", "2", "-", "2", "9">>),
      PyStr(<<"2", "0", "2", "4", "-", "1", "-", "1">>),
      PyStr(<<"3", "1", "/", "0", "1", "/", "2", "0", "2", "4">>) }

\* values a caller may pass as a date bound
DateValues ==
    {None, PyInt(20240131)} \cup Dates \cup Datetimes
    \cup {PyStr(isoformat(v)) : v \in Dates} \cup MalformedStrings

InitArgs ==
    /\ max_retries = 0
    /\ session = NewSession
    /\ backend = <<>>
    /\ args = [start_date |-> None, end_date |-> None]
    /\ gens = [id \in GenIds |-> NoGen]
    /\ ret = NoCall
    /\ scope = NoScope

\* WdmmgClient(api_key) with WDMMG_API_KEY unset or set to env_key
Construct(api_key, env_key) ==
    /\ ret = NoCall
    /\ ret' = [op |-> "__init__", api_key |-> api_key, env_key |-> env_key,
               outcome |-> __init__(api_key, env_key)]
    /\ UNCHANGED <<max_retries, session, backend, args, gens, scope>>

\* _normalize_date(value)
Normalize(value) ==
    /\ ret = NoCall
    /\ ret' = [op |-> "_normalize_date", value |-> value,
               outcome |-> _normalize_date(value), again |-> NoCall]
    /\ UNCHANGED <<max_retries, session, backend, args, gens, scope>>

\* _normalize_date of what _normalize_date returned
NormalizeAgain ==
    /\ ret # NoCall /\ ret.op = "_normalize_date"
    /\ Returned(ret.outcome) /\ ret.again = NoCall
    /\ ret' = [ret EXCEPT !.again = _normalize_date(ret.outcome.value)]
    /\ UNCHANGED <<max_retries, session, backend, args, gens, scope>>

NextArgs ==
    \/ \E api_key \in ApiKeys, env_key \in ApiKeys : Construct(api_key, env_key)
    \/ \E value \in DateValues : Normalize(value)
    \/ NormalizeAgain

SpecArgs == InitArgs /\ [][NextArgs]_vars

(***************************************************************************)
(* Properties of the request mediator (under SpecRequest).                 *)
(***************************************************************************)
Answered == ret # NoCall /\ ret.op = "_request" /\ ret.final.kind = "response"

\* C3: for every status code of a completed exchange _request gives exactly
\* one outcome: 401 or 403 an authentication error, 429 a rate-limit error,
\* any other status >= 400 an API error carrying the status and the whole
\* body, any status < 400 the decoded JSON body and no error.
C3_StatusDecidesOutcome ==
    Answered =>
        LET st == ret.final.status_code
            o == ret.outcome
        IN  /\ st \in {401, 403} => RaisedType(o, "WdmmgAuthError")
            /\ st = 429 => RaisedType(o, "WdmmgRateLimitError")
            /\ (st >= 400 /\ st \notin {401, 403, 429}) =>
                   o = Raise(WdmmgAPIError(st, ret.final.body))
            /\ st < 400 => Returned(o)

RetryAfterOf(answer) == answer.headers["Retry-After"].s

HasRetryAfter(answer) == "Retry-After" \in DOMAIN answer.headers

\* C4: a 429 response whose Retry-After header is a decimal numeral of n
\* (7, and also 0) raises a rate-limit error whose retry_after is n; without
\* the header the error's retry_after is None, not 0.
C4_RetryAfterCarried ==
    (Answered /\ ret.final.status_code = 429) =>
        /\ ~HasRetryAfter(ret.final) =>
               ret.outcome = Raise(WdmmgRateLimitError(None))
        /\ (HasRetryAfter(ret.final) /\ RetryAfterOf(ret.final) = <<"7">>) =>
               ret.outcome = Raise(WdmmgRateLimitError(PyInt(7)))
        /\ (HasRetryAfter(ret.final) /\ RetryAfterOf(ret.final) = <<"0">>) =>
               ret.outcome = Raise(WdmmgRateLimitError(PyInt(0)))
        /\ (HasRetryAfter(ret.final) /\ RetryAfterOf(ret.final) # <<>>
                /\ AllDigits(RetryAfterOf(ret.final))) =>
               ret.outcome =
                   Raise(WdmmgRateLimitError(PyInt(DecimalValue(RetryAfterOf(ret.final)))))

\* a 429 with Retry-After: 0 has raised a rate-limit error carrying 0
C4_Witness ==
    /\ Answered /\ ret.final.status_code = 429
    /\ HasRetryAfter(ret.final) /\ RetryAfterOf(ret.final) = <<"0">>
    /\ ret.outcome = Raise(WdmmgRateLimitError(PyInt(0)))

\* C5: a 429 response whose Retry-After header is present but is no integer
\* raises a rate-limit error carrying no retry_after value.
C5_UnparsableRetryAfter ==
    (/\ Answered /\ ret.final.status_code = 429
     /\ HasRetryAfter(ret.final)
     /\ ~ParseInt(RetryAfterOf(ret.final)).ok) =>
        ret.outcome = Raise(WdmmgRateLimitError(None))

(***************************************************************************)
(* Properties of pagination (under Spec).                                  *)
(***************************************************************************)
RECURSIVE Concat(_)
Concat(seqs) == IF seqs = <<>> THEN <<>> ELSE Head(seqs) \o Concat(Tail(seqs))

\* a single successful answer carrying a page with both fields
IsPlainPage(exchange) ==
    /\ Len(exchange) = 1
    /\ exchange[1].kind = "response" /\ exchange[1].status_code = 200
    /\ "json" \in DOMAIN exchange[1].body
    /\ exchange[1].body.json.t = "dict"
    /\ DOMAIN exchange[1].body.json.d = {"transactions", "has_more"}

PageOf(exchange) == exchange[1].body.json.d

\* n pages, has_more true on the first n - 1 and false on the n-th
PagedBackend ==
    /\ \A k \in 1..Len(backend) : IsPlainPage(backend[k])
    /\ \A k \in 1..Len(backend) : PageOf(backend[k]).has_more = (k < Len(backend))

ValidArgs ==
    Returned(_normalize_date(args.start_date)) /\ Returned(_normalize_date(args.end_date))

Offsets(g) == [k \in 1..Len(g.requests) |-> g.requests[k].params.offset]
Limits(g) == [k \in 1..Len(g.requests) |-> g.requests[k].params.limit]

DrainedAsC1Says(g) ==
    /\ g.pc # "raised"
    /\ \A k \in 1..Len(g.requests) :
           /\ g.requests[k].params.offset = (k - 1) * g.page_size
           /\ g.requests[k].params.limit = g.page_size
    /\ g.pc = "returned" =>
        /\ Len(g.requests) = Len(backend)
        /\ Offsets(g) = [k \in 1..Len(backend) |-> (k - 1) * g.page_size]
        /\ Limits(g) = [k \in 1..Len(backend) |-> g.page_size]
        /\ g.yielded =
               Concat([k \in 1..Len(backend) |-> PageOf(backend[k]).transactions])

\* C1: over a backend of n pages with has_more true on the first n - 1 and
\* false on the n-th, the drained stream has issued exactly n requests, with
\* offsets 0, page_size, ..., (n-1)*page_size and limit page_size, and has
\* produced the pages' transactions concatenated in the order received.
C1_DrainIssuesOneRequestPerPage ==
    (PagedBackend /\ ValidArgs) =>
        /\ gens[1] # NoGen => DrainedAsC1Says(gens[1])
        /\ ret # NoCall => DrainedAsC1Says(ret.gen)

\* pages of sizes 2, 2, 1 drained: 3 requests, 5 transactions
C1_Witness ==
    /\ PagedBackend /\ Len(backend) = 3
    /\ [k \in 1..3 |-> Len(PageOf(backend[k]).transactions)] = <<2, 2, 1>>
    /\ gens[1] # NoGen /\ gens[1].pc = "returned"
    /\ Len(gens[1].requests) = 3
    /\ gens[1].yielded = <<Txn(1, 1), Txn(1, 2), Txn(2, 1), Txn(2, 2), Txn(3, 1)>>

BothFinished ==
    /\ ret # NoCall /\ ret.op = "get_transactions"
    /\ gens[1] # NoGen /\ Finished(gens[1])

SameResult(g, h) == g.pc = h.pc /\ g.yielded = h.yielded /\ g.exc = h.exc

ArgError ==
    IF Raised(_normalize_date(args.start_date)) THEN _normalize_date(args.start_date).exc
    ELSE _normalize_date(args.end_date).exc

FailedOnArgs(g) ==
    /\ g.pc = "raised" /\ g.exc = ArgError
    /\ g.exc.type \in {"ValueError", "TypeError"}
    /\ g.requests = <<>>

\* C6: with a malformed date string or a bound of a wrong type as either
\* bound, the call of get_transactions or iter_transactions fails with an
\* argument error and no request is issued.
C6_BadBoundFailsTheCall ==
    ~ValidArgs =>
        /\ ret # NoCall => FailedOnArgs(ret.gen)
        /\ gens[1] # NoGen => FailedOnArgs(gens[1])

ClassifiedErrors == {"WdmmgAuthError", "WdmmgRateLimitError", "WdmmgAPIError", "WdmmgError"}

\* the transactions of the pages the requests 1..n of g brought
PagesBrought(g, n) ==
    Concat([k \in 1..n |->
               Get(g.requests[k].final.body.json.d, "transactions", <<>>)])

FailedFetch(g) ==
    /\ g.requests # <<>>
    /\ Raised(Classify(g.requests[Len(g.requests)].final))
    /\ Classify(g.requests[Len(g.requests)].final).exc.type \in ClassifiedErrors

FailsAsC7Says(g) ==
    LET k == Len(g.requests)
    IN  /\ g.pc = "raised"
        /\ g.exc = Classify(g.requests[k].final).exc
        /\ \A j \in 1..(k - 1) : Returned(Classify(g.requests[j].final))
        /\ g.yielded = PagesBrought(g, k - 1)
        /\ g.requests[1].final.kind = "response" /\ g.requests[1].final.status_code = 401
               => k = 1 /\ g.exc.type = "WdmmgAuthError"

\* C7: when the fetch of page k fails with a classified error, the stream
\* has yielded the transactions of the pages before it, in order, raises
\* that error unchanged, and the failing request stays its last one, also
\* when the consumer pulls again.
C7_FailureEndsTheStream ==
    /\ (gens[1] # NoGen /\ FailedFetch(gens[1])) => FailsAsC7Says(gens[1])
    /\ (ret # NoCall /\ FailedFetch(ret.gen)) => FailsAsC7Says(ret.gen)

\* the third page failed after two pages were yielded, and the consumer has
\* pulled once more
C7_Witness ==
    /\ gens[1] # NoGen /\ FailedFetch(gens[1])
    /\ Len(gens[1].requests) = 3 /\ Len(gens[1].yielded) >= 2
    /\ gens[1].pc = "raised" /\ gens[1].stopped

AttemptsAsC8Says(g) ==
    \A k \in 1..Len(g.requests) :
        LET rq == g.requests[k]
            exchange == BackendAt(backend, rq.params)
            first == exchange[1]
        IN  /\ rq.attempts <= 1 + max_retries
            /\ rq.final = AnswerAt(exchange, rq.attempts)
            /\ rq.params.offset = (k - 1) * g.page_size
            /\ (first.kind = "response" /\ first.status_code \notin status_forcelist)
                   => rq.attempts = 1
            /\ exchange = <<ServerError>> =>
                   /\ rq.attempts = 1 + max_retries
                   /\ k = Len(g.requests) /\ g.pc = "raised"
                   /\ g.exc = WdmmgAPIError(500, ErrorText)
            /\ (Len(exchange) = 2 /\ first = ServerError /\ max_retries >= 1) =>
                   /\ rq.attempts = 2
                   /\ rq.final = exchange[2]
            /\ (Len(exchange) = 2 /\ first = ServerError /\ max_retries = 0) =>
                   /\ rq.attempts = 1
                   /\ g.pc = "raised" /\ g.exc = WdmmgAPIError(500, ErrorText)

\* C8: a request answered with status 500 is re-issued by the transport up to
\* max_retries times (at most 1 + max_retries attempts) and only the last
\* answer is classified: the decoded body when an attempt succeeds, an API
\* error with status 500 when the retries are used up; _request and the
\* generator retry nothing themselves (each page is requested once), and a
\* status outside the retry list is attempted once.
C8_OnlyTheTransportRetries ==
    /\ gens[1] # NoGen => AttemptsAsC8Says(gens[1])
    /\ ret # NoCall => AttemptsAsC8Says(ret.gen)

\* a second page answered 500 on every attempt, after 1 + max_retries
\* attempts, with max_retries > 0
C8_Witness ==
    /\ max_retries = MaxRetries
    /\ gens[1] # NoGen /\ Len(gens[1].requests) = 2
    /\ BackendAt(backend, gens[1].requests[2].params) = <<ServerError>>
    /\ gens[1].requests[2].attempts = 1 + MaxRetries
    /\ gens[1].requests[1].attempts = 2
    /\ gens[1].exc = WdmmgAPIError(500, ErrorText)

(***************************************************************************)
(* Properties of the client's lifecycle (under SpecScope).                 *)
(***************************************************************************)
\* C9: the with-block releases the session on every exit path: when the
\* block is left, normally or by an error raised in it, close is performed
\* (once more, whatever close calls went before) and the error still
\* propagates; a close after a close does not raise.
C9_ScopeExitCloses ==
    [][ /\ (scope.pc # "exited" /\ scope'.pc = "exited") =>
              /\ session'.closes = session.closes + 1
              /\ session'.open = 0
              /\ scope'.exc = scope.raised
              /\ scope.pc = "unwinding" => scope'.exc = ret.outcome.exc
        /\ (scope.pc = "inside" /\ ret' # ret /\ Raised(ret'.outcome)) =>
              scope'.pc = "unwinding"
        /\ (ret'.op = "close" /\ session.closes >= 1) => Returned(ret'.outcome)
      ]_vars

\* the block was left by an error after an explicit close inside it: closed
\* twice, nothing open, the error propagating
C9_Witness ==
    /\ scope.pc = "exited" /\ scope.exc # None
    /\ scope.exc.type \in ClassifiedErrors
    /\ session.closes = 2 /\ session.open = 0

\* C10: the pool is released once, and after close has returned the client
\* never holds an open connection again: a request on a closed client fails
\* or opens no connection.
C10_NothingOpenAfterClose ==
    session.closes >= 1 => session.open = 0

(***************************************************************************)
(* Properties of the argument checks (under SpecArgs).                     *)
(***************************************************************************)
\* C11: every error a public operation signals - a missing API key at
\* construction, a malformed date string, a date bound of a wrong type, and
\* the errors of a request - belongs to the root category WdmmgError.
C11_EveryErrorIsWdmmgError ==
    (ret # NoCall /\ Raised(ret.outcome)) => IsWdmmgError(ret.outcome.exc)

\* C13: for every valid native date value and every valid ISO date string,
\* normalizing the result of a normalization succeeds and gives the same
\* string as normalizing once; an absent bound stays absent.
C13_NormalizeIdempotent ==
    (ret # NoCall /\ ret.op = "_normalize_date" /\ ret.again # NoCall) =>
        ret.again = ret.outcome

(***************************************************************************)
(* Transport failures (under SpecRequest).                                 *)
(***************************************************************************)
\* the transport call of the request ended in an exception
TransportFailed ==
    ret # NoCall /\ ret.op = "_request" /\ ret.final.kind = "exception"

\* C12: a timeout, a connection failure or any other transport exception
\* leaves _request as an error of exactly the root kind WdmmgError that
\* carries the transport exception as its cause - never an auth, rate-limit
\* or API error, never the transport exception itself.
C12_TransportFailureIsWrapped ==
    TransportFailed =>
        /\ Raised(ret.outcome)
        /\ ret.outcome.exc.type = "WdmmgError"
        /\ ret.outcome.exc.cause = ret.final.exc

C12_Witness ==
    /\ TransportFailed
    /\ ret.final.exc = "RequestException"
    /\ ret.outcome = Raise([type |-> "WdmmgError", cause |-> "RequestException"])

(***************************************************************************)
(* Account retrieval (under SpecScope).                                    *)
(***************************************************************************)
\* get_accounts was called and its request was answered with a JSON body
AccountsAnswered ==
    /\ ret # NoCall /\ ret.op = "get_accounts"
    /\ ret.final.kind = "response" /\ ret.final.status_code < 400
    /\ "json" \in DOMAIN ret.final.body

\* C14: get_accounts issues exactly one request, without paging parameters,
\* and returns the same ordered sequence L whether the body is the bare
\* list L or an object whose accounts field is L.
C14_AccountsFromEitherShape ==
    /\ (ret # NoCall /\ ret.op = "get_accounts") =>
            /\ Len(ret.requests) = 1
            /\ DOMAIN ret.requests[1].params = {}
    /\ AccountsAnswered =>
            LET doc == ret.final.body.json
            IN  /\ doc.t = "list" => ret.outcome = Return(doc)
                /\ (doc.t = "dict" /\ "accounts" \in DOMAIN doc.d) =>
                        ret.outcome = Return(doc.d.accounts)

C14_Witness ==
    /\ AccountsAnswered
    /\ ret.final.body.json = Dict([accounts |-> Accounts])
    /\ ret.outcome = Return(Accounts)
    /\ Len(Accounts.items) = 2

(***************************************************************************)
(* The course of the page loop (under Spec).                               *)
(***************************************************************************)
\* the transactions the answer to one page request brought
ItemsOf(request) ==
    LET o == Classify(request.final)
    IN  IF Returned(o) /\ o.value.t = "dict"
        THEN Get(o.value.d, "transactions", <<>>)
        ELSE <<>>

\* whether the answer to one page request asked for a further page
HasMoreOf(request) ==
    LET o == Classify(request.final)
    IN  Returned(o) /\ o.value.t = "dict" /\ Get(o.value.d, "has_more", FALSE)

\* the transactions the requests 1..n of g brought, in order
ItemsBrought(g, n) == Concat([k \in 1..n |-> ItemsOf(g.requests[k])])

\* the pages of g whose every transaction was handed to the consumer
FullyConsumed(g) ==
    {k \in 1..Len(g.requests) :
        /\ Returned(Classify(g.requests[k].final))
        /\ Len(ItemsBrought(g, k)) <= Len(g.yielded)}

LazyAsC15Says(g) ==
    LET n == Len(g.requests)
    IN  /\ g.pc = "created" => n = 0
        /\ g.pc = "suspended" =>
                /\ n >= 1
                /\ g.yielded \o g.rest = ItemsBrought(g, n)
                /\ Len(g.yielded) > Len(ItemsBrought(g, n - 1))
        /\ n <= 1 + Cardinality(FullyConsumed(g))

\* C15: the stream is lazy. Creating it issues no request; the request for
\* the next page is issued only in a pull made after every transaction of
\* the pages before was handed over; without a pull no request is issued;
\* the requests issued never exceed the fully consumed pages by more than 1.
C15_Lazy ==
    /\ [](gens[1] # NoGen => LazyAsC15Says(gens[1]))
    /\ [][(gens[1] # NoGen /\ gens'[1].requests # gens[1].requests) => Pull(1)]_vars
    /\ [][gens[1] = NoGen => (gens'[1] = NoGen \/ gens'[1].requests = <<>>)]_vars

\* every transaction of page 1 was handed over, the page announced more,
\* and no second request was issued yet
C15_Witness ==
    /\ gens[1] # NoGen /\ gens[1].pc = "suspended"
    /\ Len(gens[1].requests) = 1
    /\ Len(gens[1].yielded) = 2 /\ gens[1].rest = <<>>
    /\ HasMoreOf(gens[1].requests[1])
    /\ Len(backend) >= 2

\* g is suspended where the transactions of its page are exhausted, and the
\* page announced more
Exhausted(g) ==
    /\ g # NoGen /\ g.pc = "suspended"
    /\ g.rest = <<>>
    /\ HasMoreOf(g.requests[Len(g.requests)])

\* an answer without transactions that announces more
EmptyAndMore(request) == ItemsOf(request) = <<>> /\ HasMoreOf(request)

\* C16: a pull of a stream suspended where a page is exhausted and more was
\* announced issues exactly one more request, whatever the next page holds -
\* also when it holds no transactions and announces more.
C16_ResumeIssuesOneRequest ==
    [][(Exhausted(gens[1]) /\ gens'[1] # gens[1]) =>
            Len(gens'[1].requests) = Len(gens[1].requests) + 1]_vars

\* C16, amended: such a pull issues at least one request, and goes on
\* requesting while the page it got holds no transactions and announces
\* more: every request of the pull but its last brought such a page, the
\* last did not. So it issues exactly one request unless the next page is
\* empty and announces more.
C16_ResumeRequestsPastEmptyPages ==
    [][(Exhausted(gens[1]) /\ gens'[1] # gens[1]) =>
            LET before == Len(gens[1].requests)
                after == Len(gens'[1].requests)
            IN  /\ after >= before + 1
                /\ SubSeq(gens'[1].requests, 1, before) = gens[1].requests
                /\ \A k \in (before + 1)..(after - 1) :
                        EmptyAndMore(gens'[1].requests[k])
                /\ ~EmptyAndMore(gens'[1].requests[after])]_vars

\* page 1 was exhausted, page 2 was empty and announced more, and the same
\* pull went on to page 3
C16_Witness ==
    /\ gens[1] # NoGen /\ gens[1].pc = "suspended"
    /\ Len(gens[1].requests) = 3
    /\ ItemsOf(gens[1].requests[1]) # <<>>
    /\ EmptyAndMore(gens[1].requests[2])
    /\ Len(gens[1].yielded) = Len(ItemsOf(gens[1].requests[1])) + 1

\* what C17 says of one stream, at any moment
TerminatesAsC17Says(g) ==
    LET n == Len(g.requests)
    IN  /\ \A k \in 1..(n - 1) : HasMoreOf(g.requests[k])
        /\ n <= Len(backend)
        /\ g.pc = "returned" =>
                /\ n >= 1
                /\ Returned(Classify(g.requests[n].final))
                /\ ~HasMoreOf(g.requests[n])
                /\ g.yielded = ItemsBrought(g, n)

\* C17: pagination ends exactly at the first page whose has_more is false
\* or absent. Over a backend that returns such a page after finitely many
\* pages draining terminates (get_transactions comes back finished, and a
\* pull of an unfinished stream hands over one more transaction or finishes
\* it); the request that returned that page is the last one issued; the
\* stream never ends without error after a page whose has_more is true.
C17_EndsAtFirstLastPage ==
    /\ [](gens[1] # NoGen => TerminatesAsC17Says(gens[1]))
    /\ [](ret # NoCall => Finished(ret.gen) /\ TerminatesAsC17Says(ret.gen))
    /\ [][(gens[1] # NoGen /\ ~Finished(gens[1]) /\ gens'[1] # gens[1]) =>
              \/ Finished(gens'[1])
              \/ Len(gens'[1].yielded) = Len(gens[1].yielded) + 1]_vars

\* the stream ended after a second page that does not say whether there is
\* more
C17_Witness ==
    /\ gens[1] # NoGen /\ gens[1].pc = "returned"
    /\ Len(gens[1].requests) = 2
    /\ Returned(Classify(gens[1].requests[2].final))
    /\ "has_more" \notin DOMAIN Classify(gens[1].requests[2].final).value.d
    /\ Len(backend) = 2

\* the date bound a page request carries under key, None when it has none
BoundIn(params, key) == Get(params, key, None)

\* what C19 says of one stream started with the bounds of args
BoundsAsC19Say(g) ==
    \A k \in 1..Len(g.requests) :
        LET params == g.requests[k].params
        IN  /\ BoundIn(params, "start_date") = _normalize_date(args.start_date).value
            /\ BoundIn(params, "end_date") = _normalize_date(args.end_date).value
            /\ "start_date" \in DOMAIN params <=> args.start_date # None
            /\ "end_date" \in DOMAIN params <=> args.end_date # None
            /\ BoundIn(params, "start_date") = BoundIn(g.requests[1].params, "start_date")
            /\ BoundIn(params, "end_date") = BoundIn(g.requests[1].params, "end_date")

\* C19: the date bounds are normalized before the first request and held
\* fixed: every page request carries the same start_date and end_date as
\* the first, namely the normalized bounds of the call, and a bound that is
\* absent is left out of every request.
C19_BoundsHeldFixed ==
    /\ gens[1] # NoGen => BoundsAsC19Say(gens[1])
    /\ ret # NoCall => BoundsAsC19Say(ret.gen)

\* three pages were requested with the start bound of a date value and no
\* end bound
C19_Witness ==
    /\ gens[1] # NoGen /\ Len(gens[1].requests) = 3
    /\ args.start_date = PyDate(2024, 2, 29) /\ args.end_date = None
    /\ gens[1].requests[3].params.start_date =
           PyStr(<<"2", "0", "2", "4", "-", "0", "2", "-", "2", "9">>)
    /\ "end_date" \notin DOMAIN gens[1].requests[3].params

(***************************************************************************)
(* Independence of two streams (under SpecTwo).                            *)
(***************************************************************************)
\* the requests of g carry the offsets 0, page_size, 2*page_size, ...
OwnOffsets(g) ==
    \A k \in 1..Len(g.requests) :
        /\ g.requests[k].params.offset = (k - 1) * g.page_size
        /\ g.requests[k].params.limit = g.page_size

\* C18: two streams of one client pulled in any interleaving each issue
\* their own offsets 0, page_size, 2*page_size, ...; a step of one stream
\* depends on that stream's state only and leaves the other unchanged; a
\* stream started after another one, finished or not, starts at offset 0.
C18_StreamsAreIndependent ==
    /\ [](\A id \in TwoGenIds : gens[id] # NoGen => OwnOffsets(gens[id]))
    /\ [][\A id \in TwoGenIds : gens'[id] # gens[id] =>
              /\ \A other \in TwoGenIds \ {id} : gens'[other] = gens[other]
              /\ \/ gens[id] = NoGen /\ gens'[id].requests = <<>> /\ gens'[id].offset = 0
                 \/ gens[id] # NoGen
                    /\ gens'[id] = Resume(gens[id], backend, max_retries)]_vars

\* both streams are under way with different page sizes, each two pages in
C18_Witness ==
    /\ gens[1] # NoGen /\ gens[2] # NoGen
    /\ gens[1].pc = "suspended" /\ gens[2].pc = "suspended"
    /\ gens[1].page_size = 2 /\ gens[2].page_size = DEFAULT_PAGE_SIZE
    /\ Len(gens[1].requests) = 2 /\ Len(gens[2].requests) = 2
    /\ gens[1].requests[2].params.offset = 2
    /\ gens[2].requests[2].params.offset = DEFAULT_PAGE_SIZE

(***************************************************************************)
(* What leaves the request mediator (under SpecRequest).                   *)
(***************************************************************************)
\* C20: whatever the transport call gives - an exception, or a response of
\* any status, headers and body, also a status below 400 with a body that
\* is not JSON - _request returns the decoded body or raises an error of
\* the WdmmgError category; no other exception type escapes.
C20_OnlyWdmmgErrorsEscape ==
    (ret # NoCall /\ ret.op = "_request") =>
        \/ Returned(ret.outcome)
        \/ Raised(ret.outcome) /\ IsWdmmgError(ret.outcome.exc)

====
